---------------------------- MODULE Spec2Model ----------------------------
(***************************************************************************)
(* Model of SeleniumBackendPool (src/google_scholar_lib/backends/pool.py): *)
(* a bounded pool of browser drivers on an asyncio event loop.             *)
(*                                                                         *)
(* The event loop is single-threaded and cooperative: a coroutine runs     *)
(* until it suspends.  The suspension points of the pool are               *)
(*   - asyncio.wait_for(self._drivers.get(), ...)   (acquire, health drain)*)
(*   - self._drivers.put(...) when the queue is full                       *)
(*   - asyncio.sleep(...)  (rate limiter, health-check interval)           *)
(*   - loop.run_in_executor(...)  (the health probe)                       *)
(* `await self._create_driver(...)` never suspends (the coroutine holds no *)
(* await), so creation, recycle and a scaling check are single steps up to *)
(* a put on a full queue.  One action below is one run of a coroutine from *)
(* one suspension point to the next.                                       *)
(***************************************************************************)
EXTENDS Integers, Sequences, FiniteSets, TLC

\* ---- configuration of the pool under study
PoolSize == 1
MaxPoolSize == 2
MaxRequestsPerDriver == 2
\* acquire_timeout, in ticks of the model's clock
AcquireTimeout == 2

\* ---- bounds of the model
NumCallers == 2
\* explicit timeouts passed to acquire range over 0..MaxTimeoutArg
MaxTimeoutArg == 1
\* driver instances ever created (creation fails once they are used up)
MaxInst == 3
\* acquisitions ever started and served
MaxAcq == 3

\* DriverRateLimiter(max_requests_per_minute=...), scaled to the model's ceiling
MaxRpm == 1

\* the limiter's 60 s window and its 0.1 s buffer, in ticks of the limiter's clock
Window == 3
RlBuffer == 1
\* the limiter's clock stops here
MaxTime == 7

\* acquire(timeout=None)
NoTimeout == -1

Callers == 1..NumCallers
DriverIds == 0..(MaxPoolSize - 1)
TimeoutArgs == {NoTimeout} \cup (0..MaxTimeoutArg)
ExitPaths == {"return", "raise", "cancel"}

VARIABLES
    inst,                   \* every (driver, DriverMetrics) pair ever created, by instance number
    drivers,                \* self._drivers: the idle queue, a FIFO of instance numbers
    driver_metrics,         \* self._driver_metrics: driver_id -> instance number (0: no entry)
    initialized,            \* self._initialized
    init_error,             \* initialize() raised
    current_pool_size,      \* self.current_pool_size
    cooled,                 \* time.time() - self._last_scale_time >= self._scale_cooldown
    total_acquisitions,
    total_releases,
    total_driver_restarts,
    total_blocked_drivers,
    scaleTasks,             \* _adaptive_scaling_check tasks created and not yet run
    pc,                     \* each caller's position
    held,                   \* the instance a caller got from acquire (0: none)
    targ,                   \* the timeout a caller passed to acquire
    elapsed,                \* ticks a caller has waited in acquire
    pending,                \* the instance a caller's blocked put is about to insert
    relCalls,               \* history: calls of release for the caller's acquire_driver scope
    owed,                   \* history: a release put a driver into the queue while the caller
                            \* was the only one waiting in acquire
    howed,                  \* history: the health monitor put a driver into the queue while
                            \* the caller was the only one waiting in acquire
    hpc,                    \* the health monitor's position
    hleft,                  \* gets left in the drain loop of the cycle
    hdrained,               \* current_drivers still to probe
    hpending,               \* the instance the monitor's blocked put is about to insert
    shutdown_event,         \* self._shutdown_event.is_set()
    spc,                    \* shutdown()'s position
    found_blocked,          \* history: the instances check_for_blocking found blocked
    response,               \* the result _search_scholar prepared for a caller
    now,                    \* time.time() of one DriverRateLimiter, in ticks
    request_times,          \* DriverRateLimiter.request_times
    rl_pc,                  \* wait_if_needed's position
    rl_now,                 \* wait_if_needed's local `now`
    rl_wake,                \* when wait_if_needed's asyncio.sleep ends
    admitted                \* history: when the last calls of wait_if_needed returned

vars == <<inst, drivers, driver_metrics, initialized, init_error, current_pool_size,
          cooled, total_acquisitions, total_releases, total_driver_restarts,
          total_blocked_drivers, scaleTasks, pc, held, targ, elapsed, pending,
          relCalls, owed, howed, hpc, hleft, hdrained, hpending,
          shutdown_event, spc, found_blocked, response,
          now, request_times, rl_pc, rl_now, rl_wake, admitted>>

counters == <<total_acquisitions, total_releases, total_driver_restarts,
              total_blocked_drivers>>
callerVars == <<pc, held, targ, elapsed, pending, relCalls, owed, howed>>
healthVars == <<hpc, hleft, hdrained, hpending>>
scaleVars == <<current_pool_size, cooled, scaleTasks>>
initVars == <<initialized, init_error>>
shutVars == <<shutdown_event, spc>>
backendVars == <<found_blocked, response>>
rlVars == <<now, request_times, rl_pc, rl_now, rl_wake, admitted>>
\* what the pool's own operations never write
auxVars == <<shutVars, backendVars, rlVars>>
\* what the rate limiter never writes
poolVars == <<inst, drivers, driver_metrics, initVars, scaleVars, counters, callerVars,
              healthVars, shutVars, backendVars>>

\* ------------------------------------------------------------------ helpers

\* DriverMetrics.__init__ for a driver that was just created
DriverMetrics(driver_id) ==
    [driver_id |-> driver_id, request_count |-> 0, restart_count |-> 0,
     is_quarantined |-> FALSE, alive |-> TRUE]

Min(a, b) == IF a < b THEN a ELSE b

\* asyncio.Queue(maxsize=max_pool_size).full()
QueueFull == Len(drivers) >= MaxPoolSize

\* the number the next created instance gets
NextInst == Len(inst) + 1

\* _create_driver can succeed only while the model has instances left
CanCreate == Len(inst) < MaxInst

\* driver.quit()
Quit(insts, w) == [insts EXCEPT ![w].alive = FALSE]

\* timeout = timeout or self.acquire_timeout
EffectiveTimeout(t) == IF t = NoTimeout \/ t = 0 THEN AcquireTimeout ELSE t

\* len(self.request_times) >= self.max_rpm can hold in wait_if_needed for instance
\* w: request_times holds one timestamp per earlier admission of w, and those within the last 60 s are kept (whether
\* they are is the environment's choice)
WindowMayBeFull(w) == inst[w].request_count >= MaxRpm

\* AtCeiling with > for >=
AtCeilingOffByOne(w) == inst[w].request_count > MaxRequestsPerDriver

\* metrics.request_count >= self.max_requests_per_driver
AtCeiling(w) == inst[w].request_count >= MaxRequestsPerDriver

TypeOK ==
    /\ Len(inst) <= MaxInst
    /\ \A i \in 1..Len(drivers) : drivers[i] \in 1..Len(inst)
    /\ current_pool_size \in 0..MaxPoolSize
    /\ pc \in [Callers -> {"idle", "waiting", "rl_sleep", "holding", "release_put",
                           "quarantine_put", "timedout", "exited"}]
    /\ hpc \in {"none", "sleep", "drain", "probe", "put", "stopped"}
    /\ spc \in {"none", "await_health", "drain", "get", "done"}
    /\ rl_pc \in {"idle", "sleeping"}

\* ------------------------------------------------------------------ Init

Init ==
    /\ inst = <<>>
    /\ drivers = <<>>
    /\ driver_metrics = [d \in DriverIds |-> 0]
    /\ initialized = FALSE
    /\ init_error = FALSE
    /\ current_pool_size = PoolSize
    /\ cooled = FALSE
    /\ total_acquisitions = 0
    /\ total_releases = 0
    /\ total_driver_restarts = 0
    /\ total_blocked_drivers = 0
    /\ scaleTasks = 0
    /\ pc = [c \in Callers |-> "idle"]
    /\ held = [c \in Callers |-> 0]
    /\ targ = [c \in Callers |-> NoTimeout]
    /\ elapsed = [c \in Callers |-> 0]
    /\ pending = [c \in Callers |-> 0]
    /\ relCalls = [c \in Callers |-> 0]
    /\ owed = [c \in Callers |-> FALSE]
    /\ howed = [c \in Callers |-> FALSE]
    /\ hpc = "none"
    /\ hleft = 0
    /\ hdrained = <<>>
    /\ hpending = 0
    /\ shutdown_event = FALSE
    /\ spc = "none"
    /\ found_blocked = {}
    /\ response = [c \in Callers |-> "none"]
    /\ now = 0
    /\ request_times = <<>>
    /\ rl_pc = "idle"
    /\ rl_now = 0
    /\ rl_wake = 0
    /\ admitted = <<>>

\* ------------------------------------------------------------------ initialize

\* initialize() swallowing a failed creation: the pool starts understaffed
initialize_understaffed(k) ==
    /\ UNCHANGED auxVars
    /\ ~initialized /\ ~init_error
    /\ spc = "none"
    /\ inst' = inst \o [i \in 1..k |-> DriverMetrics(i - 1)]
    /\ drivers' = drivers \o [i \in 1..k |-> Len(inst) + i]
    /\ driver_metrics' = [d \in DriverIds |->
                            IF d < k THEN Len(inst) + d + 1 ELSE driver_metrics[d]]
    /\ initialized' = TRUE
    /\ init_error' = FALSE
    /\ hpc' = "sleep"
    /\ UNCHANGED <<scaleVars, counters, callerVars, hleft, hdrained, hpending>>

\* initialize(): k drivers are created before a creation raises (k = PoolSize: none
\* raises).  The drivers created before the failure stay in the queue.
initialize(k) ==
    /\ UNCHANGED auxVars
    /\ ~initialized /\ ~init_error
    /\ spc = "none"
    /\ inst' = inst \o [i \in 1..k |-> DriverMetrics(i - 1)]
    /\ drivers' = drivers \o [i \in 1..k |-> Len(inst) + i]
    /\ driver_metrics' = [d \in DriverIds |->
                            IF d < k THEN Len(inst) + d + 1 ELSE driver_metrics[d]]
    /\ IF k = PoolSize
       THEN /\ initialized' = TRUE
            /\ init_error' = FALSE
            /\ hpc' = "sleep"
       ELSE /\ initialized' = FALSE
            /\ init_error' = TRUE
            /\ hpc' = hpc
    /\ UNCHANGED <<scaleVars, counters, callerVars, hleft, hdrained, hpending>>

\* ------------------------------------------------------------------ recycle

\* Replacement carrying the request_count of the old driver over
ReplacementKeepsCount(w) ==
    [DriverMetrics(inst[w].driver_id) EXCEPT !.restart_count = inst[w].restart_count + 1,
                                             !.request_count = inst[w].request_count]

\* _recycle_driver: the DriverMetrics of the replacement of instance w
Replacement(w) ==
    [DriverMetrics(inst[w].driver_id) EXCEPT !.restart_count = inst[w].restart_count + 1]

\* _recycle_driver up to its put, on the instance table `insts`: quit the old
\* driver, create the replacement under the same driver_id (ok: the creation
\* succeeds), register its metrics.  A failed creation is logged and nothing else
\* happens.
recycle_driver(insts, w, ok) ==
    /\ ok => CanCreate
    /\ inst' = IF ok THEN Append(Quit(insts, w), Replacement(w)) ELSE Quit(insts, w)
    /\ driver_metrics' = IF ok THEN [driver_metrics EXCEPT ![inst[w].driver_id] = NextInst]
                         ELSE driver_metrics
    /\ total_driver_restarts' = IF ok THEN total_driver_restarts + 1
                                ELSE total_driver_restarts

\* `await self._drivers.put(x)` by caller c: the item is inserted at once unless the
\* queue is full, and then the caller suspends in `blocked` until PutResume.
CallerPut(c, x, blocked, after) ==
    IF QueueFull
    THEN /\ drivers' = drivers
         /\ pc' = [pc EXCEPT ![c] = blocked]
         /\ pending' = [pending EXCEPT ![c] = x]
    ELSE /\ drivers' = Append(drivers, x)
         /\ pc' = [pc EXCEPT ![c] = after]
         /\ pending' = [pending EXCEPT ![c] = 0]

\* ------------------------------------------------------------------ acquire

\* a caller enters acquire(timeout=t); acquire_driver() passes no timeout
AcquireStart(c, t) ==
    /\ UNCHANGED <<shutVars, rlVars, found_blocked>>
    /\ response' = [response EXCEPT ![c] = "none"]
    /\ initialized
    /\ pc[c] \in {"idle", "timedout", "exited"}
    /\ total_acquisitions + Cardinality({d \in Callers : pc[d] = "waiting"}) < MaxAcq
    /\ pc' = [pc EXCEPT ![c] = "waiting"]
    /\ targ' = [targ EXCEPT ![c] = t]
    /\ elapsed' = [elapsed EXCEPT ![c] = 0]
    /\ relCalls' = [relCalls EXCEPT ![c] = 0]
    /\ owed' = [owed EXCEPT ![c] = FALSE]
    /\ howed' = [howed EXCEPT ![c] = FALSE]
    /\ UNCHANGED <<inst, drivers, driver_metrics, initVars, scaleVars, counters,
                   held, pending, healthVars>>

\* self._drivers.get() returns: the head of the queue is removed, the metrics are
\* updated, and the rate limiter either admits at once (the scaling check is
\* scheduled and acquire returns) or sleeps (wait: its window is full).
AcquireGet(c, wait) ==
    /\ UNCHANGED auxVars
    /\ pc[c] = "waiting"
    /\ drivers # <<>>
    /\ LET w == Head(drivers) IN
        /\ drivers' = Tail(drivers)
        /\ inst' = [inst EXCEPT ![w].request_count = @ + 1]
        /\ held' = [held EXCEPT ![c] = w]
        /\ wait => WindowMayBeFull(w)
    /\ elapsed' = [elapsed EXCEPT ![c] = 0]
    /\ owed' = [owed EXCEPT ![c] = FALSE]
    /\ howed' = [howed EXCEPT ![c] = FALSE]
    /\ total_acquisitions' = total_acquisitions + 1
    /\ IF wait
       THEN /\ pc' = [pc EXCEPT ![c] = "rl_sleep"]
            /\ scaleTasks' = scaleTasks
       ELSE /\ pc' = [pc EXCEPT ![c] = "holding"]
            /\ scaleTasks' = scaleTasks + 1
    /\ UNCHANGED <<driver_metrics, initVars, current_pool_size, cooled, total_releases,
                   total_driver_restarts, total_blocked_drivers, targ,
                   pending, relCalls, healthVars>>

\* the rate limiter's sleep ends: the scaling check is scheduled, acquire returns
AcquireAdmit(c) ==
    /\ UNCHANGED auxVars
    /\ pc[c] = "rl_sleep"
    /\ pc' = [pc EXCEPT ![c] = "holding"]
    /\ scaleTasks' = scaleTasks + 1
    /\ UNCHANGED <<inst, drivers, driver_metrics, initVars, current_pool_size, cooled,
                   counters, held, targ, elapsed, pending, relCalls, owed, howed, healthVars>>

\* AcquireTimeoutError with the acquisition counted before the wait is over
AcquireTimeoutErrorCounted(c) ==
    /\ UNCHANGED auxVars
    /\ pc[c] = "waiting"
    /\ drivers = <<>>
    /\ elapsed[c] >= EffectiveTimeout(targ[c])
    /\ pc' = [pc EXCEPT ![c] = "timedout"]
    /\ targ' = [targ EXCEPT ![c] = NoTimeout]
    /\ elapsed' = [elapsed EXCEPT ![c] = 0]
    /\ owed' = [owed EXCEPT ![c] = FALSE]
    /\ howed' = [howed EXCEPT ![c] = FALSE]
    /\ total_acquisitions' = total_acquisitions + 1
    /\ UNCHANGED <<inst, drivers, driver_metrics, initVars, scaleVars, total_releases,
                   total_driver_restarts, total_blocked_drivers,
                   held, pending, relCalls, healthVars>>

\* asyncio.TimeoutError: the wait on the empty queue reached the timeout; logged
\* and re-raised.  The call is over: its timeout and its clock are forgotten.
AcquireTimeoutError(c) ==
    /\ UNCHANGED auxVars
    /\ pc[c] = "waiting"
    /\ drivers = <<>>
    /\ elapsed[c] >= EffectiveTimeout(targ[c])
    /\ pc' = [pc EXCEPT ![c] = "timedout"]
    /\ targ' = [targ EXCEPT ![c] = NoTimeout]
    /\ elapsed' = [elapsed EXCEPT ![c] = 0]
    /\ owed' = [owed EXCEPT ![c] = FALSE]
    /\ howed' = [howed EXCEPT ![c] = FALSE]
    /\ UNCHANGED <<inst, drivers, driver_metrics, initVars, scaleVars, counters,
                   held, pending, relCalls, healthVars>>

\* one tick of time passes for the callers waiting on the empty queue; a waiter at
\* its timeout fails before more time passes
Tick ==
    /\ UNCHANGED auxVars
    /\ drivers = <<>>
    /\ \E c \in Callers : pc[c] = "waiting"
    /\ \A c \in Callers : pc[c] = "waiting" => elapsed[c] < EffectiveTimeout(targ[c])
    /\ elapsed' = [c \in Callers |-> IF pc[c] = "waiting" THEN elapsed[c] + 1
                                     ELSE elapsed[c]]
    /\ UNCHANGED <<inst, drivers, driver_metrics, initVars, scaleVars, counters,
                   pc, held, targ, pending, relCalls, owed, howed, healthVars>>

\* ------------------------------------------------------------------ release

\* the caller's scope came from acquire_driver() (which passes no timeout)
Scoped(c) == targ[c] = NoTimeout

\* where a caller is once its release has returned
Released(c) == IF Scoped(c) THEN "exited" ELSE "idle"

\* d is the only caller waiting in acquire
SoleWaiter(d) ==
    /\ pc[d] = "waiting"
    /\ \A e \in Callers \ {d} : pc[e] # "waiting"

\* owed, once a release by caller c has put a driver into the queue
OwedAfterPut(c) ==
    [d \in Callers |-> \/ owed[d]
                       \/ /\ d # c
                          /\ SoleWaiter(d)
                          /\ elapsed[d] < EffectiveTimeout(targ[d])]

\* release(driver, metrics) by caller c for the instance it holds
release(c) ==
    LET w == held[c] IN
    /\ total_releases' = total_releases + 1
    /\ relCalls' = [relCalls EXCEPT ![c] = IF Scoped(c) THEN @ + 1 ELSE @]
    /\ held' = [held EXCEPT ![c] = 0]
    /\ IF AtCeiling(w)
       THEN \E ok \in BOOLEAN :
              /\ recycle_driver(inst, w, ok)
              /\ IF ok
                 THEN CallerPut(c, NextInst, "release_put", Released(c))
                 ELSE /\ drivers' = drivers
                      /\ pc' = [pc EXCEPT ![c] = Released(c)]
                      /\ pending' = pending
       ELSE /\ CallerPut(c, w, "release_put", Released(c))
            /\ UNCHANGED <<inst, driver_metrics, total_driver_restarts>>
    /\ targ' = [targ EXCEPT ![c] = IF pc'[c] = "idle" THEN NoTimeout ELSE @]
    /\ owed' = IF drivers' # drivers THEN OwedAfterPut(c) ELSE owed
    /\ howed' = howed
    /\ UNCHANGED <<initVars, scaleVars, total_acquisitions, total_blocked_drivers,
                   elapsed, healthVars>>

\* acquire_driver() without try/finally: release runs on a normal return only
acquire_driver_exit_no_finally(c, path) ==
    /\ UNCHANGED auxVars
    /\ pc[c] = "holding"
    /\ Scoped(c)
    /\ path \in ExitPaths
    /\ IF path = "return"
       THEN release(c)
       ELSE /\ pc' = [pc EXCEPT ![c] = "exited"]
            /\ held' = [held EXCEPT ![c] = 0]
            /\ UNCHANGED <<inst, drivers, driver_metrics, initVars, scaleVars, counters,
                           targ, elapsed, pending, relCalls, owed, howed, healthVars>>

\* acquire_driver(): the scope of `async with` ends on `path`; the finally clause
\* runs release on every path
acquire_driver_exit(c, path) ==
    /\ UNCHANGED auxVars
    /\ pc[c] = "holding"
    /\ Scoped(c)
    /\ path \in ExitPaths
    /\ release(c)

\* a caller that used acquire(timeout=t) directly calls release
ReleaseCall(c) ==
    /\ UNCHANGED auxVars
    /\ pc[c] = "holding"
    /\ ~Scoped(c)
    /\ release(c)

\* a put that was blocked on the full queue goes through
PutResume(c) ==
    /\ UNCHANGED auxVars
    /\ pc[c] \in {"release_put", "quarantine_put"}
    /\ ~QueueFull
    /\ drivers' = Append(drivers, pending[c])
    /\ pending' = [pending EXCEPT ![c] = 0]
    /\ pc' = [pc EXCEPT ![c] = IF pc[c] = "release_put" THEN Released(c) ELSE "holding"]
    /\ targ' = [targ EXCEPT ![c] = IF pc'[c] = "idle" THEN NoTimeout ELSE @]
    /\ owed' = IF pc[c] = "release_put" THEN OwedAfterPut(c) ELSE owed
    /\ howed' = howed
    /\ UNCHANGED <<inst, driver_metrics, initVars, scaleVars, counters, held,
                   elapsed, relCalls, healthVars>>

\* ------------------------------------------------------------------ quarantine

\* quarantine_driver(driver, metrics) by the caller that holds the instance
quarantine_driver(c) ==
    LET w == held[c] IN
    /\ UNCHANGED auxVars
    /\ pc[c] = "holding"
    /\ ~inst[w].is_quarantined
    /\ total_blocked_drivers' = total_blocked_drivers + 1
    /\ \E ok \in BOOLEAN :
         /\ recycle_driver([inst EXCEPT ![w].is_quarantined = TRUE], w, ok)
         /\ IF ok
            THEN CallerPut(c, NextInst, "quarantine_put", "holding")
            ELSE UNCHANGED <<drivers, pc, pending>>
    /\ UNCHANGED <<initVars, scaleVars, total_acquisitions, total_releases,
                   held, targ, elapsed, relCalls, owed, howed, healthVars>>

\* ------------------------------------------------------------------ health monitor

\* howed, once the monitor has put a driver into the queue
HowedAfterPut ==
    [d \in Callers |-> \/ howed[d]
                       \/ /\ SoleWaiter(d)
                          /\ elapsed[d] < EffectiveTimeout(targ[d])]

\* where the monitor goes once `rest` is what is left of current_drivers
AfterProbe(rest) == IF rest = <<>> THEN "sleep" ELSE "probe"

\* HealthStart with check_count taken from the target size alone
HealthStartWholeTarget ==
    /\ UNCHANGED auxVars
    /\ hpc = "sleep"
    /\ current_pool_size > 0
    /\ hpc' = "drain"
    /\ hleft' = current_pool_size
    /\ hdrained' = <<>>
    /\ UNCHANGED <<inst, drivers, driver_metrics, initVars, scaleVars, counters,
                   callerVars, hpending>>

\* _health_check_loop wakes from its sleep and _perform_health_check takes its
\* snapshot: check_count = min(qsize, current_pool_size)
HealthStart ==
    /\ UNCHANGED auxVars
    /\ hpc = "sleep"
    /\ ~shutdown_event
    /\ Min(Len(drivers), current_pool_size) > 0
    /\ hpc' = "drain"
    /\ hleft' = Min(Len(drivers), current_pool_size)
    /\ hdrained' = <<>>
    /\ UNCHANGED <<inst, drivers, driver_metrics, initVars, scaleVars, counters,
                   callerVars, hpending>>

\* HealthDrain reading the head of the queue without removing it
HealthDrainPeek ==
    /\ UNCHANGED auxVars
    /\ hpc = "drain"
    /\ hleft > 0
    /\ drivers # <<>>
    /\ drivers' = drivers
    /\ hdrained' = Append(hdrained, Head(drivers))
    /\ hleft' = hleft - 1
    /\ hpc' = IF hleft = 1 THEN "probe" ELSE "drain"
    /\ UNCHANGED <<inst, driver_metrics, initVars, scaleVars, counters, callerVars,
                   hpending>>

\* one get of the drain loop returns
HealthDrain ==
    /\ UNCHANGED auxVars
    /\ hpc = "drain"
    /\ hleft > 0
    /\ drivers # <<>>
    /\ drivers' = Tail(drivers)
    /\ hdrained' = Append(hdrained, Head(drivers))
    /\ hleft' = hleft - 1
    /\ hpc' = IF hleft = 1 THEN "probe" ELSE "drain"
    /\ UNCHANGED <<inst, driver_metrics, initVars, scaleVars, counters, callerVars,
                   hpending>>

\* a get of the drain loop times out on the empty queue: break
HealthDrainTimeout ==
    /\ UNCHANGED auxVars
    /\ hpc = "drain"
    /\ drivers = <<>>
    /\ hleft' = 0
    /\ hpc' = AfterProbe(hdrained)
    /\ UNCHANGED <<inst, drivers, driver_metrics, initVars, scaleVars, counters,
                   callerVars, hdrained, hpending>>

\* `await self._drivers.put(x)` by the monitor
HealthPut(x, rest) ==
    IF QueueFull
    THEN /\ drivers' = drivers
         /\ hpc' = "put"
         /\ hpending' = x
    ELSE /\ drivers' = Append(drivers, x)
         /\ hpc' = AfterProbe(rest)
         /\ hpending' = 0

\* HealthProbe that forgets a responsive driver instead of putting it back
HealthProbeDropsHealthy(healthy, ok) ==
    /\ UNCHANGED auxVars
    /\ hpc = "probe"
    /\ hdrained # <<>>
    /\ LET w == Head(hdrained)
           rest == Tail(hdrained) IN
        /\ healthy => inst[w].alive
        /\ hdrained' = rest
        /\ IF healthy
           THEN /\ ok
                /\ drivers' = drivers
                /\ hpc' = AfterProbe(rest)
                /\ hpending' = hpending
                /\ UNCHANGED <<inst, driver_metrics, total_driver_restarts>>
           ELSE /\ recycle_driver(inst, w, ok)
                /\ IF ok
                   THEN HealthPut(NextInst, rest)
                   ELSE /\ drivers' = drivers
                        /\ hpc' = AfterProbe(rest)
                        /\ hpending' = hpending
    /\ UNCHANGED <<initVars, scaleVars, total_acquisitions, total_releases,
                   total_blocked_drivers, callerVars, hleft>>

\* HealthProbe whose recycle also quits the other drivers drained in the cycle
HealthProbeQuitsRest(healthy, ok) ==
    /\ UNCHANGED auxVars
    /\ hpc = "probe"
    /\ hdrained # <<>>
    /\ LET w == Head(hdrained)
           rest == Tail(hdrained)
           quitRest == [v \in DOMAIN inst |->
                          IF \E i \in 1..Len(rest) : rest[i] = v
                          THEN [inst[v] EXCEPT !.alive = FALSE] ELSE inst[v]] IN
        /\ healthy => inst[w].alive
        /\ hdrained' = rest
        /\ IF healthy
           THEN /\ ok
                /\ HealthPut(w, rest)
                /\ UNCHANGED <<inst, driver_metrics, total_driver_restarts>>
           ELSE /\ recycle_driver(quitRest, w, ok)
                /\ IF ok
                   THEN HealthPut(NextInst, rest)
                   ELSE /\ drivers' = drivers
                        /\ hpc' = AfterProbe(rest)
                        /\ hpending' = hpending
    /\ UNCHANGED <<initVars, scaleVars, total_acquisitions, total_releases,
                   total_blocked_drivers, callerVars, hleft>>

\* HealthProbe with _recycle_driver letting a failed creation escape: the cycle is
\* abandoned with the rest of current_drivers
HealthProbeRaises(healthy, ok) ==
    /\ UNCHANGED auxVars
    /\ hpc = "probe"
    /\ hdrained # <<>>
    /\ LET w == Head(hdrained)
           rest == Tail(hdrained) IN
        /\ healthy => inst[w].alive
        /\ IF healthy
           THEN /\ ok
                /\ hdrained' = rest
                /\ HealthPut(w, rest)
                /\ UNCHANGED <<inst, driver_metrics, total_driver_restarts>>
           ELSE /\ recycle_driver(inst, w, ok)
                /\ IF ok
                   THEN hdrained' = rest /\ HealthPut(NextInst, rest)
                   ELSE /\ hdrained' = <<>>
                        /\ drivers' = drivers
                        /\ hpc' = "sleep"
                        /\ hpending' = hpending
    /\ UNCHANGED <<initVars, scaleVars, total_acquisitions, total_releases,
                   total_blocked_drivers, callerVars, hleft>>

\* _is_driver_responsive answers for the next drained driver (a driver that was
\* quit raises and is unresponsive); a healthy driver goes back to the queue, an
\* unhealthy one is recycled
HealthProbe(healthy, ok) ==
    /\ UNCHANGED auxVars
    /\ hpc = "probe"
    /\ hdrained # <<>>
    /\ LET w == Head(hdrained)
           rest == Tail(hdrained) IN
        /\ healthy => inst[w].alive
        /\ hdrained' = rest
        /\ IF healthy
           THEN /\ ok
                /\ HealthPut(w, rest)
                /\ UNCHANGED <<inst, driver_metrics, total_driver_restarts>>
           ELSE /\ recycle_driver(inst, w, ok)
                /\ IF ok
                   THEN HealthPut(NextInst, rest)
                   ELSE /\ drivers' = drivers
                        /\ hpc' = AfterProbe(rest)
                        /\ hpending' = hpending
    /\ howed' = IF drivers' # drivers THEN HowedAfterPut ELSE howed
    /\ UNCHANGED <<initVars, scaleVars, total_acquisitions, total_releases,
                   total_blocked_drivers, pc, held, targ, elapsed, pending, relCalls,
                   owed, hleft>>

\* the monitor's put that was blocked on the full queue goes through
HealthPutResume ==
    /\ UNCHANGED auxVars
    /\ hpc = "put"
    /\ ~QueueFull
    /\ drivers' = Append(drivers, hpending)
    /\ hpending' = 0
    /\ hpc' = AfterProbe(hdrained)
    /\ howed' = HowedAfterPut
    /\ UNCHANGED <<inst, driver_metrics, initVars, scaleVars, counters, pc, held, targ,
                   elapsed, pending, relCalls, owed, hleft, hdrained>>

\* ------------------------------------------------------------------ adaptive scaling

\* utilization = 1 - available / current_pool_size > 0.8, in tenths
ScaleUpWanted(available, size) == 10 * (size - available) > 8 * size

\* utilization < 0.3
ScaleDownWanted(available, size) == 10 * (size - available) < 3 * size

\* time passes: the cooldown since _last_scale_time is over.  Only a scaling
\* check reads the clock, so the model lets it pass while one is pending.
CooldownElapses ==
    /\ UNCHANGED auxVars
    /\ ~cooled
    /\ scaleTasks > 0
    /\ cooled' = TRUE
    /\ UNCHANGED <<inst, drivers, driver_metrics, initVars, current_pool_size,
                   scaleTasks, counters, callerVars, healthVars>>

\* _scale_pool(current_pool_size + 1): one driver is created under the id
\* current_pool_size and put into the queue (ok: the creation succeeds); the put
\* finds room, since the check saw fewer than a fifth of the target idle
scale_up(ok) ==
    /\ ok => CanCreate
    /\ IF ok
       THEN /\ inst' = Append(inst, DriverMetrics(current_pool_size))
            /\ drivers' = Append(drivers, NextInst)
            /\ driver_metrics' = [driver_metrics EXCEPT ![current_pool_size] = NextInst]
       ELSE UNCHANGED <<inst, drivers, driver_metrics>>
    /\ current_pool_size' = current_pool_size + 1
    /\ cooled' = FALSE

\* _scale_pool(current_pool_size - 1): only the target changes
scale_down ==
    /\ current_pool_size' = current_pool_size - 1
    /\ cooled' = FALSE
    /\ UNCHANGED <<inst, drivers, driver_metrics>>

\* adaptive_scaling_check without the cooldown test
adaptive_scaling_check_no_cooldown(ok) ==
    /\ UNCHANGED auxVars
    /\ scaleTasks > 0
    /\ scaleTasks' = scaleTasks - 1
    /\ LET available == Len(drivers) IN
       IF current_pool_size = 0
       THEN ok /\ UNCHANGED <<inst, drivers, driver_metrics, current_pool_size, cooled>>
       ELSE IF ScaleUpWanted(available, current_pool_size)
               /\ current_pool_size < MaxPoolSize
       THEN scale_up(ok)
       ELSE IF ScaleDownWanted(available, current_pool_size)
               /\ current_pool_size > PoolSize
       THEN ok /\ scale_down
       ELSE ok /\ UNCHANGED <<inst, drivers, driver_metrics, current_pool_size, cooled>>
    /\ UNCHANGED <<initVars, counters, callerVars, healthVars>>

\* adaptive_scaling_check without the bounds on the target
adaptive_scaling_check_unbounded(ok) ==
    /\ UNCHANGED auxVars
    /\ scaleTasks > 0
    /\ scaleTasks' = scaleTasks - 1
    /\ LET available == Len(drivers) IN
       IF ~cooled \/ current_pool_size = 0
       THEN ok /\ UNCHANGED <<inst, drivers, driver_metrics, current_pool_size, cooled>>
       ELSE IF ScaleUpWanted(available, current_pool_size)
               /\ current_pool_size < MaxPoolSize
       THEN scale_up(ok)
       ELSE IF ScaleDownWanted(available, current_pool_size)
       THEN ok /\ scale_down
       ELSE ok /\ UNCHANGED <<inst, drivers, driver_metrics, current_pool_size, cooled>>
    /\ UNCHANGED <<initVars, counters, callerVars, healthVars>>

\* one scheduled _adaptive_scaling_check task runs
adaptive_scaling_check(ok) ==
    /\ UNCHANGED auxVars
    /\ scaleTasks > 0
    /\ scaleTasks' = scaleTasks - 1
    /\ LET available == Len(drivers) IN
       IF ~cooled \/ current_pool_size = 0
       THEN ok /\ UNCHANGED <<inst, drivers, driver_metrics, current_pool_size, cooled>>
       ELSE IF ScaleUpWanted(available, current_pool_size)
               /\ current_pool_size < MaxPoolSize
       THEN scale_up(ok)
       ELSE IF ScaleDownWanted(available, current_pool_size)
               /\ current_pool_size > PoolSize
       THEN ok /\ scale_down
       ELSE ok /\ UNCHANGED <<inst, drivers, driver_metrics, current_pool_size, cooled>>
    /\ UNCHANGED <<initVars, counters, callerVars, healthVars>>

\* ------------------------------------------------------------------ specification

Next ==
    \/ \E k \in 0..PoolSize : initialize(k)
    \/ \E c \in Callers, t \in TimeoutArgs : AcquireStart(c, t)
    \/ \E c \in Callers, wait \in BOOLEAN : AcquireGet(c, wait)
    \/ \E c \in Callers : AcquireAdmit(c)
    \/ \E c \in Callers : AcquireTimeoutError(c)
    \/ Tick
    \/ \E c \in Callers, path \in ExitPaths : acquire_driver_exit(c, path)
    \/ \E c \in Callers : ReleaseCall(c)
    \/ \E c \in Callers : PutResume(c)
    \/ \E c \in Callers : quarantine_driver(c)
    \/ HealthStart
    \/ HealthDrain
    \/ HealthDrainTimeout
    \/ \E healthy \in BOOLEAN, ok \in BOOLEAN : HealthProbe(healthy, ok)
    \/ HealthPutResume
    \/ CooldownElapses
    \/ \E ok \in BOOLEAN : adaptive_scaling_check(ok)

Spec == Init /\ [][Next]_vars

\* the event loop runs whatever is ready: the pool does not stop while a step is
\* possible, the monitor wakes up after every interval and goes through its
\* cycle, and every scheduled scaling check runs
FairSpec ==
    /\ Spec
    /\ WF_vars(Next)
    /\ WF_vars(HealthStart)
    /\ WF_vars(HealthDrain \/ HealthDrainTimeout)
    /\ WF_vars(\E healthy \in BOOLEAN, ok \in BOOLEAN : HealthProbe(healthy, ok))
    /\ WF_vars(CooldownElapses)
    /\ WF_vars(\E ok \in BOOLEAN : adaptive_scaling_check(ok))

\* ------------------------------------------------------------------ shutdown

\* shutdown() up to `await self._health_check_task`: the flag is set and the
\* monitor task, if there is one, is cancelled
shutdown_start ==
    /\ spc = "none"
    /\ shutdown_event' = TRUE
    /\ spc' = IF hpc = "none" THEN "drain" ELSE "await_health"
    /\ UNCHANGED <<inst, drivers, driver_metrics, initVars, scaleVars, counters,
                   callerVars, healthVars, backendVars, rlVars>>

\* the CancelledError reaches the monitor at the await it is suspended in and
\* _health_check_loop breaks: the task is done, the drivers in its
\* current_drivers list are dropped, and shutdown's await returns
health_check_task_done ==
    /\ spc = "await_health"
    /\ hpc' = "stopped"
    /\ hleft' = 0
    /\ hdrained' = <<>>
    /\ hpending' = 0
    /\ spc' = "drain"
    /\ UNCHANGED <<inst, drivers, driver_metrics, initVars, scaleVars, counters,
                   callerVars, shutdown_event, backendVars, rlVars>>

\* `while not self._drivers.empty()`: on the empty queue the loop ends,
\* _initialized is cleared and shutdown returns
shutdown_check ==
    /\ spc = "drain"
    /\ IF drivers = <<>>
       THEN spc' = "done" /\ initialized' = FALSE
       ELSE spc' = "get" /\ initialized' = initialized
    /\ UNCHANGED <<inst, drivers, driver_metrics, init_error, scaleVars, counters,
                   callerVars, healthVars, shutdown_event, backendVars, rlVars>>

\* shutdown_get leaving the driver it took out of the queue running
shutdown_get_no_quit ==
    /\ spc = "get"
    /\ drivers # <<>>
    /\ drivers' = Tail(drivers)
    /\ spc' = "drain"
    /\ UNCHANGED <<inst, driver_metrics, initVars, scaleVars, counters, callerVars,
                   healthVars, shutdown_event, backendVars, rlVars>>

\* wait_for(self._drivers.get(), timeout=1) returns a driver; driver.quit()
shutdown_get ==
    /\ spc = "get"
    /\ drivers # <<>>
    /\ inst' = Quit(inst, Head(drivers))
    /\ drivers' = Tail(drivers)
    /\ spc' = "drain"
    /\ UNCHANGED <<driver_metrics, initVars, scaleVars, counters, callerVars,
                   healthVars, shutdown_event, backendVars, rlVars>>

\* the get times out (a caller took the driver first): break, _initialized is
\* cleared and shutdown returns
shutdown_get_timeout ==
    /\ spc = "get"
    /\ drivers = <<>>
    /\ spc' = "done"
    /\ initialized' = FALSE
    /\ UNCHANGED <<inst, drivers, driver_metrics, init_error, scaleVars, counters,
                   callerVars, healthVars, shutdown_event, backendVars, rlVars>>

\* the pool with its shutdown; the callers use acquire_driver, as the service does
NextShutdown ==
    \/ \E k \in 0..PoolSize : initialize(k)
    \/ \E c \in Callers : AcquireStart(c, NoTimeout)
    \/ \E c \in Callers, wait \in BOOLEAN : AcquireGet(c, wait)
    \/ \E c \in Callers : AcquireAdmit(c)
    \/ \E c \in Callers : AcquireTimeoutError(c)
    \/ Tick
    \/ \E c \in Callers, path \in ExitPaths : acquire_driver_exit(c, path)
    \/ \E c \in Callers : PutResume(c)
    \/ \E c \in Callers : quarantine_driver(c)
    \/ HealthStart
    \/ HealthDrain
    \/ HealthDrainTimeout
    \/ \E healthy \in BOOLEAN, ok \in BOOLEAN : HealthProbe(healthy, ok)
    \/ HealthPutResume
    \/ CooldownElapses
    \/ \E ok \in BOOLEAN : adaptive_scaling_check(ok)
    \/ shutdown_start
    \/ health_check_task_done
    \/ shutdown_check
    \/ shutdown_get
    \/ shutdown_get_timeout

SpecShutdown == Init /\ [][NextShutdown]_vars

\* the event loop runs whatever is ready, shutdown included
FairSpecShutdown ==
    /\ SpecShutdown
    /\ WF_vars(NextShutdown)
    /\ WF_vars(shutdown_check \/ shutdown_get \/ shutdown_get_timeout)
    /\ WF_vars(\E c \in Callers : PutResume(c))

\* ------------------------------------------------------------------ rate limiter

\* now - t < 60
InWindow(t) == now - t < Window

\* [t for t in self.request_times if now - t < 60]
Pruned == SelectSeq(request_times, InWindow)

\* history: the times of the last MaxRpm + 1 admissions
Admit(t) ==
    IF Len(admitted) <= MaxRpm THEN Append(admitted, t) ELSE Append(Tail(admitted), t)

\* time passes for the limiter
RlTick ==
    /\ now < MaxTime
    /\ now' = now + 1
    /\ UNCHANGED <<poolVars, request_times, rl_pc, rl_now, rl_wake, admitted>>

\* wait_if_needed admitting at the cap: len(self.request_times) > self.max_rpm
wait_if_needed_above_cap ==
    /\ rl_pc = "idle"
    /\ rl_now' = now
    /\ LET wait_time == Window - (now - Pruned[1]) + RlBuffer IN
       IF Len(Pruned) > MaxRpm /\ wait_time > 0
       THEN /\ request_times' = Pruned
            /\ rl_pc' = "sleeping"
            /\ rl_wake' = now + wait_time
            /\ admitted' = admitted
       ELSE /\ request_times' = Append(Pruned, now)
            /\ rl_pc' = "idle"
            /\ rl_wake' = rl_wake
            /\ admitted' = Admit(now)
    /\ UNCHANGED <<poolVars, now>>

\* wait_if_needed() up to its sleep or, without one, to its return: the old
\* timestamps are dropped; at the cap the call sleeps until the oldest one has
\* left the window (plus the buffer); otherwise `now` is recorded and it returns
wait_if_needed ==
    /\ rl_pc = "idle"
    /\ rl_now' = now
    /\ LET wait_time == Window - (now - Pruned[1]) + RlBuffer IN
       IF Len(Pruned) >= MaxRpm /\ wait_time > 0
       THEN /\ request_times' = Pruned
            /\ rl_pc' = "sleeping"
            /\ rl_wake' = now + wait_time
            /\ admitted' = admitted
       ELSE /\ request_times' = Append(Pruned, now)
            /\ rl_pc' = "idle"
            /\ rl_wake' = rl_wake
            /\ admitted' = Admit(now)
    /\ UNCHANGED <<poolVars, now>>

\* asyncio.sleep returning at once
wait_if_needed_wake_at_once ==
    /\ rl_pc = "sleeping"
    /\ request_times' = Append(request_times, rl_now)
    /\ admitted' = Admit(now)
    /\ rl_pc' = "idle"
    /\ UNCHANGED <<poolVars, now, rl_now, rl_wake>>

\* asyncio.sleep(wait_time) is over (at its time or later): the `now` taken
\* before the sleep is recorded and wait_if_needed returns
wait_if_needed_wake ==
    /\ rl_pc = "sleeping"
    /\ now >= rl_wake
    /\ request_times' = Append(request_times, rl_now)
    /\ admitted' = Admit(now)
    /\ rl_pc' = "idle"
    /\ UNCHANGED <<poolVars, now, rl_now, rl_wake>>

\* one DriverRateLimiter under the successive acquisitions of its driver
NextRL ==
    \/ RlTick
    \/ wait_if_needed
    \/ wait_if_needed_wake

SpecRL == Init /\ [][NextRL]_vars

\* ------------------------------------------------------------------ the backend's requests

\* SeleniumBackend._execute_scholar_search inside the acquire_driver scope of
\* _search_scholar: the page is loaded and check_for_blocking(driver, metrics)
\* answers is_blocked (a driver that was quit raises inside check_for_blocking,
\* which then answers False).  On True the "Blocked" response is prepared and
\* returned; quarantine_driver is not called on either path.
execute_scholar_search(c, is_blocked) ==
    /\ pc[c] = "holding"
    /\ Scoped(c)
    /\ response[c] = "none"
    /\ is_blocked => inst[held[c]].alive
    /\ response' = [response EXCEPT ![c] = IF is_blocked THEN "Blocked" ELSE "Success"]
    /\ found_blocked' = IF is_blocked THEN found_blocked \cup {held[c]} ELSE found_blocked
    /\ UNCHANGED <<inst, drivers, driver_metrics, initVars, scaleVars, counters,
                   callerVars, healthVars, shutVars, rlVars>>

\* the pool as SeleniumBackend uses it: every request is
\* `async with self.pool.acquire_driver()` around one search
NextBackend ==
    \/ \E k \in 0..PoolSize : initialize(k)
    \/ \E c \in Callers : AcquireStart(c, NoTimeout)
    \/ \E c \in Callers, wait \in BOOLEAN : AcquireGet(c, wait)
    \/ \E c \in Callers : AcquireAdmit(c)
    \/ \E c \in Callers : AcquireTimeoutError(c)
    \/ Tick
    \/ \E c \in Callers, is_blocked \in BOOLEAN : execute_scholar_search(c, is_blocked)
    \/ \E c \in Callers, path \in ExitPaths : acquire_driver_exit(c, path)

SpecBackend == Init /\ [][NextBackend]_vars


\* ------------------------------------------------------------------ cancellation

\* the task that runs acquire is cancelled at the await it is suspended in.  In
\* wait_for(self._drivers.get()) the get is cancelled and nothing was taken.  In
\* metrics.rate_limiter.wait_if_needed() the CancelledError leaves acquire with
\* the driver already out of the queue: no handler in acquire catches it and
\* acquire_driver has not entered its try block, so the frame's driver and
\* metrics are dropped.
acquire_cancelled(c) ==
    /\ UNCHANGED auxVars
    /\ pc[c] \in {"waiting", "rl_sleep"}
    /\ pc' = [pc EXCEPT ![c] = "idle"]
    /\ held' = [held EXCEPT ![c] = 0]
    /\ targ' = [targ EXCEPT ![c] = NoTimeout]
    /\ elapsed' = [elapsed EXCEPT ![c] = 0]
    /\ owed' = [owed EXCEPT ![c] = FALSE]
    /\ howed' = [howed EXCEPT ![c] = FALSE]
    /\ UNCHANGED <<inst, drivers, driver_metrics, initVars, scaleVars, counters,
                   pending, relCalls, healthVars>>

\* the pool under callers that use acquire_driver and may be cancelled
NextCancel ==
    \/ \E k \in 0..PoolSize : initialize(k)
    \/ \E c \in Callers : AcquireStart(c, NoTimeout)
    \/ \E c \in Callers, wait \in BOOLEAN : AcquireGet(c, wait)
    \/ \E c \in Callers : AcquireAdmit(c)
    \/ \E c \in Callers : AcquireTimeoutError(c)
    \/ Tick
    \/ \E c \in Callers, path \in ExitPaths : acquire_driver_exit(c, path)
    \/ \E c \in Callers : acquire_cancelled(c)

SpecCancel == Init /\ [][NextCancel]_vars

\* ------------------------------------------------------------------ properties

Instances == 1..Len(inst)
Live == {w \in Instances : inst[w].alive}

\* the entries of a sequence that equal w
Occurrences(q, w) == Cardinality({i \in 1..Len(q) : q[i] = w})

\* caller c has been handed (or is being handed) an instance and has not released it
Holding(c) == pc[c] \in {"rl_sleep", "holding", "quarantine_put"}

\* live drivers in the idle queue, live drivers held by callers
LiveIdle == Cardinality({i \in 1..Len(drivers) : inst[drivers[i]].alive})
LiveHeld == Cardinality({c \in Callers : Holding(c) /\ inst[held[c]].alive})

\* the parties that own instance w: entries of the idle queue, callers holding it,
\* callers about to put it, the health monitor
Owners(w) ==
    Occurrences(drivers, w)
    + Cardinality({c \in Callers : Holding(c) /\ held[c] = w})
    + Cardinality({c \in Callers : pc[c] \in {"release_put", "quarantine_put"}
                                    /\ pending[c] = w})
    + Occurrences(hdrained, w)
    + (IF hpc = "put" /\ hpending = w THEN 1 ELSE 0)

\* a step in which caller c's acquire fails with the timeout error
TimesOut(c) == pc[c] = "waiting" /\ pc'[c] = "timedout"

\* a step in which caller c calls release
Releases(c) == pc[c] = "holding" /\ pc'[c] \in {"exited", "idle", "release_put"}

\* C1: in every reachable state the live drivers in the idle queue plus the live
\* drivers held by callers are at most current_pool_size.
C1_IdlePlusHeldWithinTarget == LiveIdle + LiveHeld <= current_pool_size

\* C2: in every reachable state current_pool_size lies in [pool_size, max_pool_size].
C2_TargetWithinBounds == current_pool_size \in PoolSize..MaxPoolSize

\* a scale-up has created driver PoolSize, a scale-down has brought the target
\* back, and another scaling check is pending
C2_Witness ==
    /\ driver_metrics[PoolSize] # 0
    /\ current_pool_size = PoolSize
    /\ scaleTasks > 0

\* C3: in every reachable state at most max_pool_size drivers are live.
C3_LiveWithinMax == Cardinality(Live) <= MaxPoolSize

\* C4: a release at the use ceiling never puts the released instance into the idle
\* queue: what it inserts is a new instance of the same driver_id with
\* request_count 0 and the old restart_count plus one.  A release below the
\* ceiling inserts the released instance itself (at once, or when its put on the
\* full queue goes through) and changes no metrics.  No instance in the idle
\* queue is at the ceiling.
C4_RecycleAtCeiling ==
    /\ [](\A i \in 1..Len(drivers) :
            inst[drivers[i]].request_count < MaxRequestsPerDriver)
    /\ [][\A c \in Callers : Releases(c) =>
            LET w == held[c]
                n == Len(inst) + 1 IN
            IF inst[w].request_count >= MaxRequestsPerDriver
            THEN /\ Occurrences(drivers', w) = 0
                 /\ pending'[c] # w
                 /\ \/ drivers' = drivers /\ pending'[c] = 0 /\ Len(inst') = Len(inst)
                    \/ /\ Len(inst') = n
                       /\ drivers' = Append(drivers, n) \/ pending'[c] = n
                       /\ inst'[n].driver_id = inst[w].driver_id
                       /\ inst'[n].request_count = 0
                       /\ inst'[n].restart_count = inst[w].restart_count + 1
            ELSE /\ inst' = inst
                 /\ \/ drivers' = Append(drivers, w)
                    \/ drivers' = drivers /\ pending'[c] = w]_vars

\* the first driver was used up to the ceiling and recycled by release, and its
\* replacement (restart_count 1, request_count 0) is in the idle queue
C4_Witness ==
    /\ Len(inst) >= 2
    /\ ~inst[1].alive
    /\ ~inst[1].is_quarantined
    /\ inst[1].request_count = MaxRequestsPerDriver
    /\ Occurrences(drivers, 2) = 1
    /\ inst[2].driver_id = inst[1].driver_id
    /\ inst[2].restart_count = 1
    /\ inst[2].request_count = 0

\* C5: an acquire that times out leaves the pool as it was: the idle queue, every
\* driver's metrics, the drivers held, total_acquisitions and the scheduled
\* scaling checks are unchanged.
C5_TimeoutLeavesPoolUnchanged ==
    [][\A c \in Callers : TimesOut(c) =>
          /\ drivers' = drivers
          /\ inst' = inst
          /\ held' = held
          /\ pending' = pending
          /\ LiveHeld' = LiveHeld
          /\ total_acquisitions' = total_acquisitions
          /\ scaleTasks' = scaleTasks
          /\ current_pool_size' = current_pool_size]_vars

\* every caller's acquire has timed out on the empty queue
C5_Witness == \A c \in Callers : pc[c] = "timedout"

\* C6: an acquire called with an explicit timeout T fails once it has waited T.
C6_ExplicitTimeoutIsTheBound ==
    [][\A c \in Callers : (TimesOut(c) /\ targ[c] # NoTimeout) =>
          elapsed[c] = targ[c]]_vars

\* C7: an acquire does not time out once a release by another caller has put a
\* driver into the queue while it was the only one waiting.
C7_WaiterServedAfterRelease ==
    [][\A c \in Callers : TimesOut(c) => ~owed[c]]_vars

\* C8: a caller whose acquire_driver scope has ended has called release exactly
\* once, and a caller inside the scope has not called it.
C8_ScopedReleasedOnce ==
    \A c \in Callers :
        /\ pc[c] = "exited" => relCalls[c] = 1
        /\ (Holding(c) /\ Scoped(c)) => relCalls[c] = 0

\* every caller has left an acquire_driver scope
C8_Witness == \A c \in Callers : pc[c] = "exited" /\ relCalls[c] = 1

\* C9: each live driver is owned by at most one party among the idle queue, the
\* callers and the health monitor.
C9_ExclusiveOwnership == \A w \in Live : Owners(w) <= 1

\* a caller holds a live driver while the monitor holds another one it drained
C9_Witness ==
    /\ hdrained # <<>>
    /\ inst[Head(hdrained)].alive
    /\ \E c \in Callers : pc[c] = "holding" /\ inst[held[c]].alive

\* C10: an instance that was quarantined is never in the idle queue.
C10_QuarantinedNeverIdle ==
    \A i \in 1..Len(drivers) : ~inst[drivers[i]].is_quarantined

\* C11: an instance that check_for_blocking found blocked is never in the idle
\* queue afterwards (it is quarantined and recycled instead).
C11_BlockedNeverIdle ==
    \A i \in 1..Len(drivers) : drivers[i] \notin found_blocked

\* a step in which the monitor finishes the probe of the next drained driver
Probes == hpc = "probe" /\ hpc' # "stopped" /\ hdrained # <<>> /\ hdrained' = Tail(hdrained)

\* the monitor's put of x: into the queue, or pending on the full queue
MonitorReturns(x) ==
    \/ drivers' = Append(drivers, x) /\ hpc' # "put"
    \/ drivers' = drivers /\ hpc' = "put" /\ hpending' = x

\* C12: a health-check cycle gives back one driver for each driver it drained: a
\* responsive driver is put back as the same, unchanged instance; an unresponsive
\* one is quit and, when the creation succeeds, replaced in the queue by a new
\* instance with the same driver_id and restart_count one higher.  A put that
\* waited on the full queue inserts that very driver.
C12_CycleGivesBackWhatItDrained ==
    /\ [][Probes =>
            LET w == Head(hdrained)
                n == Len(inst) + 1 IN
            \/ /\ inst' = inst
               /\ inst[w].alive
               /\ MonitorReturns(w)
            \/ /\ ~inst'[w].alive
               /\ Len(inst') = n
               /\ MonitorReturns(n)
               /\ inst'[n].alive
               /\ inst'[n].driver_id = inst[w].driver_id
               /\ inst'[n].restart_count = inst[w].restart_count + 1
            \/ /\ ~inst'[w].alive
               /\ Len(inst') = Len(inst)
               /\ drivers' = drivers
               /\ hpc' # "put"]_vars
    /\ [][(hpc = "put" /\ hpc' \notin {"put", "stopped"}) =>
            drivers' = Append(drivers, hpending)]_vars

\* the sole idle driver was found unresponsive by a cycle (nobody released or
\* quarantined it) and the cycle is over with its replacement in the queue
C12_Witness ==
    /\ hpc = "sleep"
    /\ total_releases = 0
    /\ total_blocked_drivers = 0
    /\ total_driver_restarts = 1
    /\ Len(inst) = 2
    /\ drivers = <<2>>
    /\ ~inst[1].alive
    /\ inst[2].driver_id = inst[1].driver_id
    /\ inst[2].restart_count = inst[1].restart_count + 1

\* C13: the monitor probes and recycles only drivers it took out of the idle
\* queue.  A cycle takes check_count = min(idle, current_pool_size) as its drain
\* budget, each drain removes the head of the queue and uses up one unit of the
\* budget, no driver is drained twice, no drained driver is held by a caller, and
\* a probe changes the metrics of no driver a caller holds.
C13_MonitorTouchesOnlyDrained ==
    /\ [](/\ \A i \in 1..Len(hdrained) :
               /\ Occurrences(hdrained, hdrained[i]) = 1
               /\ \A c \in Callers : ~(Holding(c) /\ held[c] = hdrained[i])
          /\ hpc = "drain" => Len(hdrained) + hleft <= MaxPoolSize
          /\ hpc = "probe" => hleft = 0)
    /\ [][(hpc = "sleep" /\ hpc' = "drain") =>
            /\ hleft' = Min(Len(drivers), current_pool_size)
            /\ hleft' <= Len(drivers)
            /\ hdrained' = <<>>]_vars
    /\ [][(hpc = "drain" /\ hdrained' # hdrained /\ hpc' # "stopped") =>
            /\ drivers # <<>>
            /\ hdrained' = Append(hdrained, Head(drivers))
            /\ drivers' = Tail(drivers)
            /\ hleft' = hleft - 1]_vars
    /\ [][Probes =>
            \A c \in Callers : Holding(c) => inst'[held[c]] = inst[held[c]]]_vars

\* the monitor has drained one driver and is probing it while a caller holds the
\* other driver of the pool
C13_Witness ==
    /\ hpc = "probe"
    /\ Len(hdrained) = 1
    /\ \E c \in Callers : pc[c] = "holding" /\ held[c] # Head(hdrained)
                          /\ inst[held[c]].alive

\* the recorded timestamps within the trailing window of time t
CountInWindow(times, t) == Cardinality({i \in 1..Len(times) : t - times[i] < Window})

\* a step in which wait_if_needed returns to acquire
RlReturns ==
    \/ rl_pc = "sleeping" /\ rl_pc' = "idle"
    \/ rl_pc = "idle" /\ rl_pc' = "idle" /\ request_times' # request_times

\* C14: a call of wait_if_needed that finds max_rpm or more timestamps within the
\* trailing window sleeps, and returns no earlier than window - (now - oldest)
\* after the call, oldest being the oldest timestamp in the window; a call that
\* finds fewer returns in the same instant.
C14_DelayedOnlyAtCap ==
    /\ [][(rl_pc = "idle" /\ (rl_pc' = "sleeping" \/ request_times' # request_times)) =>
            IF CountInWindow(request_times, now) >= MaxRpm
            THEN rl_pc' = "sleeping"
            ELSE rl_pc' = "idle" /\ now' = now
                 /\ admitted'[Len(admitted')] = now]_vars
    /\ [][(rl_pc = "sleeping" /\ rl_pc' = "idle") =>
            /\ CountInWindow(request_times, rl_now) >= MaxRpm
            /\ now - rl_now >= Window - (rl_now - request_times[1])
            /\ admitted'[Len(admitted')] = now]_vars

\* a call was delayed: it returned later than the time it recorded
C14_Witness ==
    /\ rl_pc = "idle"
    /\ admitted # <<>>
    /\ request_times # <<>>
    /\ admitted[Len(admitted)] > request_times[Len(request_times)]

\* C15: any max_rpm + 1 consecutive admissions of one driver span at least a
\* whole window, so no window-long interval holds more than max_rpm admissions.
C15_AdmissionsWithinCap ==
    Len(admitted) = MaxRpm + 1 => admitted[MaxRpm + 1] - admitted[1] >= Window

\* C16: whenever wait_if_needed returns, at most max_rpm of the timestamps in
\* request_times lie within the trailing window of the time of return.
C16_WindowCountWithinCap ==
    [][RlReturns => CountInWindow(request_times', now') <= MaxRpm]_vars

\* wait_if_needed has returned with more than max_rpm timestamps stored, the
\* oldest of them outside the window
C16_Witness ==
    /\ rl_pc = "idle"
    /\ Len(request_times) > MaxRpm
    /\ now - request_times[1] >= Window

\* C17: shutdown returns with the flag set, the monitor task over and the idle
\* queue empty; every driver shutdown took out of the queue was quit; shutdown
\* drains only once the monitor task is over, and the monitor starts no cycle
\* after that.
C17_ShutdownLeavesNothingIdle ==
    /\ [][(spc # "done" /\ spc' = "done") =>
            /\ shutdown_event'
            /\ hpc' \in {"none", "stopped"}
            /\ drivers' = <<>>
            /\ ~initialized']_vars
    /\ [][(spc = "get" /\ spc' = "drain") =>
            /\ drivers # <<>>
            /\ drivers' = Tail(drivers)
            /\ ~inst'[Head(drivers)].alive]_vars
    /\ [](spc \in {"drain", "get", "done"} =>
            /\ shutdown_event
            /\ hpc \in {"none", "stopped"}
            /\ hdrained = <<>>)

\* shutdown has returned after stopping the monitor and quitting the idle driver
\* that no caller had ever acquired
C17_Witness ==
    /\ spc = "done"
    /\ hpc = "stopped"
    /\ drivers = <<>>
    /\ total_acquisitions = 0
    /\ Len(inst) >= 1
    /\ Live = {}

\* C18: initialize either fails, and then the pool is not marked initialized
\* and no monitor is started, or succeeds, and then the idle queue holds pool_size
\* fresh drivers with the identifiers 0..pool_size-1 in order, the pool is marked
\* initialized and the monitor runs.  A pool whose initialize failed never gets a
\* monitor.
C18_InitializeAllOrError ==
    /\ [][(~initialized /\ ~init_error /\ spc = "none" /\ (initialized' \/ init_error')) =>
            IF init_error'
            THEN ~initialized' /\ hpc' = "none"
            ELSE /\ initialized'
                 /\ hpc' = "sleep"
                 /\ Len(drivers') = PoolSize
                 /\ \A i \in 1..PoolSize :
                        /\ inst'[drivers'[i]] = DriverMetrics(i - 1)
                        /\ driver_metrics'[i - 1] = drivers'[i]]_vars
    /\ [](init_error => ~initialized /\ hpc = "none")
    /\ []((initialized /\ spc = "none") => hpc # "none")

\* initialize has failed
C18_Witness ==
    /\ init_error
    /\ ~initialized
    /\ hpc = "none"
    /\ Len(inst) < PoolSize

\* a step in which instance w is quit and no replacement is created
FailedRecycle(w) == inst[w].alive /\ ~inst'[w].alive /\ Len(inst') = Len(inst)

\* C19: a recycle whose creation fails changes nothing but the recycled driver: the
\* queue, the other drivers and their metrics, the registered metrics and the
\* target stay as they were; the caller of release or quarantine_driver returns
\* normally and the other callers are where they were; the monitor goes on with
\* the next driver of its cycle.  A scale-up whose creation fails changes neither
\* the drivers, the queue, the callers nor the monitor.
C19_CreationFailureIsContained ==
    /\ [][\A w \in Instances : FailedRecycle(w) =>
            /\ Len(drivers') = Len(drivers)
            /\ drivers' = drivers
            /\ \A v \in Instances \ {w} : inst'[v] = inst[v]
            /\ inst'[w].driver_id = inst[w].driver_id
            /\ driver_metrics' = driver_metrics
            /\ total_driver_restarts' = total_driver_restarts
            /\ current_pool_size' = current_pool_size
            /\ \A c \in Callers :
                 IF Holding(c) /\ held[c] = w
                 THEN pc'[c] \in {"holding", "exited", "idle"}
                 ELSE pc'[c] = pc[c] /\ held'[c] = held[c]
            /\ IF hpc = "probe" /\ hdrained # <<>> /\ Head(hdrained) = w
               THEN hdrained' = Tail(hdrained) /\ hpc' = AfterProbe(Tail(hdrained))
               ELSE UNCHANGED healthVars]_vars
    /\ [][(current_pool_size' > current_pool_size /\ Len(inst') = Len(inst)) =>
            /\ inst' = inst
            /\ drivers' = drivers
            /\ driver_metrics' = driver_metrics
            /\ UNCHANGED <<callerVars, healthVars>>]_vars

\* the monitor found the first of two drained drivers unresponsive, its
\* replacement could not be created, and the monitor is probing the second
C19_Witness ==
    /\ hpc = "probe"
    /\ Len(hdrained) = 1
    /\ inst[Head(hdrained)].alive
    /\ total_driver_restarts = 0
    /\ \E w \in Instances : ~inst[w].alive /\ ~inst[w].is_quarantined
                            /\ inst[w].request_count < MaxRequestsPerDriver

\* the pool has lost its last driver to a failed recycle: no driver is live,
\* nothing is idle, held or being put, no scaling check is scheduled and the
\* monitor sleeps
LastDriverLost ==
    /\ initialized
    /\ Live = {}
    /\ current_pool_size >= 1
    /\ drivers = <<>>
    /\ scaleTasks = 0
    /\ hpc = "sleep"
    /\ \A c \in Callers : pc[c] \in {"idle", "waiting", "timedout", "exited"}

\* C20: once the pool has lost its last driver, a live driver exists again at
\* some later time, as long as drivers can be created.
C20_CapacityEventuallyRestored ==
    (LastDriverLost /\ CanCreate) ~> (Live # {} \/ ~CanCreate)

\* a step in which caller c's wait in acquire ends with a driver
Served(c) == pc[c] = "waiting" /\ pc'[c] \in {"rl_sleep", "holding"}

\* C21: acquisitions are served first in, first out: the driver a caller gets is
\* the one that has been in the idle queue longest, and the caller that gets it
\* has waited at least as long as every other caller waiting in acquire.
C21_ServedInOrderOfArrival ==
    [][\A c \in Callers : Served(c) =>
          /\ drivers # <<>>
          /\ held'[c] = Head(drivers)
          /\ drivers' = Tail(drivers)
          /\ \A d \in Callers : pc[d] = "waiting" => elapsed[d] <= elapsed[c]]_vars

\* get_metrics(): a read of the pool's state.  utilization_percent is
\* busy / current_pool_size * 100 (0 for a target of 0); driver_details lists the
\* metrics registered in _driver_metrics, one per driver_id.
get_metrics ==
    LET available == Len(drivers)
        busy == current_pool_size - available IN
    [pool_size |-> current_pool_size,
     max_pool_size |-> MaxPoolSize,
     available_drivers |-> available,
     busy_drivers |-> busy,
     utilization_percent |-> IF current_pool_size > 0
                             THEN (busy * 100) \div current_pool_size ELSE 0,
     total_acquisitions |-> total_acquisitions,
     total_releases |-> total_releases,
     total_driver_restarts |-> total_driver_restarts,
     total_blocked_drivers |-> total_blocked_drivers,
     initialized |-> initialized,
     driver_details |-> {driver_metrics[d] : d \in {e \in DriverIds : driver_metrics[e] # 0}}]

\* C22: get_metrics is exact: available_drivers is the length of the idle queue,
\* busy_drivers is the number of drivers checked out to callers and is not
\* negative, utilization_percent lies in 0..100, and driver_details has one entry
\* for each live driver and no other (in an initialized pool).
C22_MetricsExact ==
    initialized =>
    /\ get_metrics.available_drivers = Len(drivers)
    /\ get_metrics.busy_drivers = Cardinality({c \in Callers : Holding(c)})
    /\ get_metrics.busy_drivers >= 0
    /\ get_metrics.utilization_percent \in 0..100
    /\ get_metrics.driver_details = Live

\* C23: no two live drivers have the same driver_id, and _driver_metrics maps the
\* driver_id of each live driver to the metrics of that very driver.
C23_OneMetricsEntryPerLiveDriver ==
    /\ \A v, w \in Live : inst[v].driver_id = inst[w].driver_id => v = w
    /\ \A w \in Live : driver_metrics[inst[w].driver_id] = w

\* C24: the scaler changes current_pool_size only when the cooldown since
\* _last_scale_time (set at construction and at every change) is over, and the
\* change starts a new cooldown in the same step, so that of several scaling
\* checks in flight at most one changes the target per cooldown; the cooldown ends
\* only by time passing.
C24_ChangesRespectCooldown ==
    /\ ~cooled
    /\ [][current_pool_size' # current_pool_size => cooled /\ ~cooled']_vars
    /\ [][(~cooled /\ cooled') =>
            /\ current_pool_size' = current_pool_size
            /\ scaleTasks' = scaleTasks]_vars

\* the scaler has raised the target, the new cooldown is running, and two more
\* scaling checks are in flight
C24_Witness ==
    /\ current_pool_size = PoolSize + 1
    /\ ~cooled
    /\ scaleTasks >= 2

\* a step in which _recycle_driver quits instance w
Recycles(w) == inst[w].alive /\ ~inst'[w].alive

\* C25: a scale-down only lowers the target (no driver is quit, the idle queue is
\* untouched), and a recycle that runs while more drivers are live than the
\* target creates no replacement, so the live drivers fall to the target.
C25_ScaleDownIsLazyAndConverges ==
    /\ [][current_pool_size' < current_pool_size =>
            inst' = inst /\ drivers' = drivers]_vars
    /\ [][\A w \in Instances :
            (Recycles(w) /\ Cardinality(Live) > current_pool_size) =>
                /\ Len(inst') = Len(inst)
                /\ Cardinality(Live') < Cardinality(Live)]_vars

\* C26: cancelling a caller inside acquire leaks no driver: every live driver is
\* in the idle queue or owned by a caller or by the monitor.
C26_CancelLeaksNoDriver == \A w \in Live : Owners(w) >= 1

\* the monitor holds instance w: it drained it and has not yet put it back
MonitorHolds(w) == Occurrences(hdrained, w) > 0 \/ (hpc = "put" /\ hpending = w)

\* C27: a shutdown that interrupts a health-check cycle leaks none of the drained
\* drivers: when the monitor task ends, each live driver it was holding is quit or
\* back in the idle queue, and so is quit by the time shutdown returns.
C27_ShutdownLeaksNoDrainedDriver ==
    /\ [][(spc = "await_health" /\ spc' = "drain") =>
            \A w \in Live : MonitorHolds(w) =>
                ~inst'[w].alive \/ Occurrences(drivers', w) > 0]_vars
    /\ [](spc = "done" => \A w \in Live : Owners(w) >= 1)

\* C28: a put into the idle queue never finds it full: no caller is suspended in
\* the put of release or of quarantine_driver's recycle, and the monitor is not
\* suspended in the put of its cycle.
C28_PutNeverBlocks ==
    /\ \A c \in Callers : pc[c] \notin {"release_put", "quarantine_put"}
    /\ hpc # "put"

\* C29: the timestamp wait_if_needed records is the time at which it returns, also
\* when it had to sleep first.
C29_RecordsTimeOfAdmission ==
    [][RlReturns =>
          /\ Len(request_times') > 0
          /\ request_times'[Len(request_times')] = now']_vars

\* shutdown has returned, no caller holds a driver or is still putting one, and
\* the drivers still live are those the callers gave back: they are in the idle
\* queue
ShutdownOverAndAllReleased ==
    /\ spc = "done"
    /\ \A c \in Callers : pc[c] \in {"idle", "waiting", "timedout", "exited"}
    /\ \A w \in Live : Occurrences(drivers, w) >= 1

\* C30: once shutdown has returned and every caller has released what it held, at
\* some later time no driver is live: the drivers that releases after shutdown
\* put into the idle queue are drained and quit.
C30_EventuallyNoLiveDriver == ShutdownOverAndAllReleased ~> (Live = {})

\* C31: a health-check cycle does not starve a waiting caller: an acquire does not
\* time out once the monitor has put a driver back into the idle queue while it
\* was the only one waiting and had time left.
C31_WaiterServedAfterCycle ==
    [][\A c \in Callers : TimesOut(c) => ~howed[c]]_vars

\* C32: the probe of a drained driver touches that driver only.  A responsive
\* driver goes back to the idle queue as the same instance with its request_count
\* and restart_count unchanged; an unresponsive one is recycled, and neither the
\* other drained drivers, the drivers in the queue nor the drivers held by callers
\* change, and the callers stay where they are.
C32_ProbeFailureRecyclesOnlyThatDriver ==
    [][Probes =>
          LET w == Head(hdrained) IN
          /\ \A v \in Instances \ {w} : inst'[v] = inst[v]
          /\ hdrained' = Tail(hdrained)
          /\ \A i \in 1..Len(drivers) : drivers'[i] = drivers[i]
          /\ pc' = pc /\ held' = held /\ pending' = pending
          /\ IF inst'[w].alive
             THEN inst'[w] = inst[w] /\ MonitorReturns(w)
             ELSE /\ Occurrences(drivers', w) = 0
                  /\ hpending' # w
                  /\ Len(inst') <= Len(inst) + 1
                  /\ inst'[w].request_count = inst[w].request_count
                  /\ inst'[w].restart_count = inst[w].restart_count]_vars

\* of two drivers drained in one cycle the first was unresponsive and has been
\* replaced (the replacement is in the idle queue); the monitor is probing the
\* second, which is live and has been used by a caller
C32_Witness ==
    /\ hpc = "probe"
    /\ Len(hdrained) = 1
    /\ inst[Head(hdrained)].alive
    /\ inst[Head(hdrained)].request_count > 0
    /\ total_driver_restarts = 1
    /\ total_blocked_drivers = 0
    /\ drivers # <<>>
    /\ inst[drivers[Len(drivers)]].restart_count = 1
    /\ \E w \in Instances : ~inst[w].alive /\ inst[w].request_count < MaxRequestsPerDriver

\* a step in which one scheduled scaling check runs
ScalingCheckRuns == scaleTasks' = scaleTasks - 1

\* C33: a scaling check outside the cooldown raises the target by exactly one when
\* the utilization is above 0.8 and the target below max_pool_size, and the driver
\* it creates is put into the idle queue under a driver_id that no live driver has;
\* it lowers the target by exactly one, touching no driver, when the utilization is
\* below 0.3 and the target above pool_size; in every other case the target, the
\* drivers and the queue stay as they are.
C33_ScalingStepIsExact ==
    [][ScalingCheckRuns =>
          LET available == Len(drivers)
              size == current_pool_size
              n == Len(inst) + 1 IN
          IF cooled /\ size > 0 /\ ScaleUpWanted(available, size) /\ size < MaxPoolSize
          THEN /\ current_pool_size' = size + 1
               /\ \/ inst' = inst /\ drivers' = drivers
                  \/ /\ Len(inst') = n
                     /\ \A w \in Instances : inst'[w] = inst[w]
                     /\ inst'[n].alive
                     /\ \A w \in Live : inst[w].driver_id # inst'[n].driver_id
                     /\ drivers' = Append(drivers, n)
          ELSE IF cooled /\ size > 0 /\ ScaleDownWanted(available, size) /\ size > PoolSize
          THEN current_pool_size' = size - 1 /\ inst' = inst /\ drivers' = drivers
          ELSE current_pool_size' = size /\ inst' = inst /\ drivers' = drivers]_vars

\* C34: the request_count of an instance never decreases: it grows by exactly one
\* in the step in which an acquire hands the instance to a caller and in no other
\* step (release, probes and scaling leave it alone), and its driver_id and
\* restart_count never change.  A new instance starts at request_count 0; the
\* replacement made by a recycle has the restart_count of the recycled driver plus
\* one, any other new instance has 0.
C34_UseCountMonotone ==
    [][/\ \A w \in Instances :
            /\ inst'[w].driver_id = inst[w].driver_id
            /\ inst'[w].restart_count = inst[w].restart_count
            /\ IF \E c \in Callers : Served(c) /\ held'[c] = w
               THEN inst'[w].request_count = inst[w].request_count + 1
               ELSE inst'[w].request_count = inst[w].request_count
       /\ \A n \in (Len(inst) + 1)..Len(inst') :
            /\ inst'[n].request_count = 0
            /\ IF initialized /\ current_pool_size' = current_pool_size
               THEN \E w \in Instances :
                      /\ ~inst'[w].alive
                      /\ inst'[n].driver_id = inst[w].driver_id
                      /\ inst'[n].restart_count = inst[w].restart_count + 1
               ELSE inst'[n].restart_count = 0]_vars

\* the first driver was used up to the ceiling and recycled, and a caller holds its
\* replacement, acquired once
C34_Witness ==
    /\ Len(inst) >= 2
    /\ ~inst[1].alive
    /\ inst[1].request_count = MaxRequestsPerDriver
    /\ \E c \in Callers :
         /\ pc[c] = "holding"
         /\ held[c] > 1
         /\ inst[held[c]].driver_id = inst[1].driver_id
         /\ inst[held[c]].restart_count = 1
         /\ inst[held[c]].request_count = 1

\* C35: with every acquisition made through acquire_driver, total_releases never
\* exceeds total_acquisitions, their difference is the number of drivers checked
\* out to callers, and total_driver_restarts is the number of replacements that
\* recycles have created.
C35_CountersMatchCheckouts ==
    initialized =>
        /\ total_releases <= total_acquisitions
        /\ total_acquisitions - total_releases = Cardinality({c \in Callers : Holding(c)})
        /\ total_driver_restarts = Len(inst) - PoolSize

=============================================================================
